---- MODULE Spec2Model ----
(***************************************************************************)
(* gps-speed-meter: the live tracking state machine.                       *)
(*                                                                         *)
(* The model follows the useTracking hook (src/hooks/useTracking.ts), the  *)
(* trip store (src/unnamed/part_009), the speed calculator and location    *)
(* service (src/unnamed/part_002) and the trips table                      *)
(* (src/database/queries.ts).                                              *)
(*                                                                         *)
(* Execution model.  JavaScript runs one task at a time; every action      *)
(* below is one synchronous segment: a call up to its first await, or the  *)
(* continuation of one await up to the next.  Awaited database calls go    *)
(* through one connection and are served in submission order: dbQueue      *)
(* holds the pending calls, and a Db... action is the head call taking     *)
(* effect together with the continuation that awaited it.                  *)
(* A change of the store schedules a re-render of the hook (dirty).  React *)
(* flushes that update, with the effects of the render, in a microtask at  *)
(* the end of the task that changed the store: Render is that re-render,   *)
(* and while it is pending nothing else runs.                              *)
(*                                                                         *)
(* Units.  Time is in ms.  Distances are in metres; every point lies on    *)
(* one meridian, latitude counted in grid steps of MetersPerStep metres,   *)
(* where the Haversine formula reduces to R * |dLat|.  Speeds in km/h are  *)
(* kept in hundredths (3.6 km/h = 360); device speeds are in dm/s, so that *)
(* speed * MS_TO_KMH is dm/s * 36.  Divisions round down.                  *)
(* A nullable value is <<>> (null) or <<v>>; a null trip id, end time or   *)
(* start time is 0, which the code tests by truthiness.                    *)
(***************************************************************************)
EXTENDS Integers, Sequences, FiniteSets, TLC

VARIABLES
    store,        \* useTripStore state
    rendered,     \* the store state of the last render (what closures captured)
    dirty,        \* the store changed since the last render
    refs,         \* the hook's useRef values
    timers,       \* deadlines of the 1 s interval, the 5 s interval, the debounce
    trips,        \* trips table, row id = index
    pointCount,   \* location_points rows per trip
    dbQueue,      \* awaited database calls, in submission order
    subscription, \* the location subscription and the callback it holds
    startPc,      \* position of the startTracking call in flight
    stopPc,       \* position of the stopTracking call in flight
    restorePc,    \* checkForActiveTrip awaiting startFullTracking
    now,          \* Date.now()
    nSamples,     \* samples delivered so far
    faults,       \* rejected database calls so far
    nCalls,       \* calls of the hook's commands so far
    settings,     \* useSettingsStore state
    hist          \* history: what the last step did, and running facts

vars == <<store, rendered, dirty, refs, timers, trips, pointCount, dbQueue,
          subscription, startPc, stopPc, restorePc, now, nSamples, faults,
          nCalls, settings, hist>>

----------------------------------------------------------------------------
(* Bounds of the exploration *)

MaxTrips == 2
MaxSamples == 2
MaxTime == 6
MaxWatchTime == 16
MaxFaults == 1
MaxEvents == 3
MaxChecks == 1
MaxLat == 1

(* Program constants *)

TickMs == 1000
DecayMs == 3000
GpsLossIntervalMs == 5000
GpsLossMs == 10000
StationaryDurationS == 5
MsPerSecond == 1000
MetersPerStep == 10
GPS_NOISE_THRESHOLD_KMH == 100
MS_TO_KMH == 36
NoTrip == 0

Null == <<>>
Some(v) == <<v>>

Abs(x) == IF x < 0 THEN -x ELSE x
Max(a, b) == IF a >= b THEN a ELSE b

DeviceSpeeds == {Null, Some(2), Some(10)}
Lats == 0..MaxLat

----------------------------------------------------------------------------
(* Speed calculator *)

haversineDistance(point1, point2) ==
    MetersPerStep * Abs(point2.latitude - point1.latitude)

\* Faulty calculator: no noise floor
calculateSpeed_NoFloor(currentLocation, prevLocation) ==
    IF currentLocation.speed # Null /\ currentLocation.speed[1] >= 0
    THEN currentLocation.speed[1] * MS_TO_KMH
    ELSE IF prevLocation # Null
         THEN LET distance == haversineDistance(prevLocation[1], currentLocation)
                  timeDiffMs == currentLocation.timestamp - prevLocation[1].timestamp
              IN  IF timeDiffMs > 0
                  THEN (distance * MsPerSecond * MS_TO_KMH * 10) \div timeDiffMs
                  ELSE 0
         ELSE 0

\* Faulty calculator: the device speed is never used
calculateSpeed_NoDeviceSpeed(currentLocation, prevLocation) ==
    LET speed ==
          IF prevLocation # Null
          THEN LET distance == haversineDistance(prevLocation[1], currentLocation)
                   timeDiffMs == currentLocation.timestamp - prevLocation[1].timestamp
               IN  IF timeDiffMs > 0
                   THEN (distance * MsPerSecond * MS_TO_KMH * 10) \div timeDiffMs
                   ELSE 0
          ELSE 0
    IN  IF speed < GPS_NOISE_THRESHOLD_KMH THEN 0 ELSE speed

calculateSpeed(currentLocation, prevLocation) ==
    LET speed ==
          IF currentLocation.speed # Null /\ currentLocation.speed[1] >= 0
          THEN currentLocation.speed[1] * MS_TO_KMH
          ELSE IF prevLocation # Null
               THEN LET distance == haversineDistance(prevLocation[1], currentLocation)
                        timeDiffMs == currentLocation.timestamp - prevLocation[1].timestamp
                    IN  IF timeDiffMs > 0
                        THEN (distance * MsPerSecond * MS_TO_KMH * 10) \div timeDiffMs
                        ELSE 0
               ELSE 0
    IN  IF speed < GPS_NOISE_THRESHOLD_KMH THEN 0 ELSE speed

----------------------------------------------------------------------------
(* Trip store *)

initialState ==
    [isTracking |-> FALSE, isPaused |-> FALSE, currentSpeed |-> 0,
     currentTripId |-> NoTrip, totalDistance |-> 0, avgSpeed |-> 0,
     maxSpeed |-> 0, elapsedTime |-> 0, lastLocation |-> Null,
     gpsStatus |-> "searching", tripStartTime |-> 0]

\* Faulty startTracking: the pause flag is left as it was
storeStartTracking_KeepsPause(s, tripId, t) ==
    [s EXCEPT !.isTracking = TRUE, !.currentTripId = tripId,
              !.tripStartTime = t, !.totalDistance = 0, !.avgSpeed = 0,
              !.maxSpeed = 0, !.elapsedTime = 0, !.gpsStatus = "searching"]

storeStartTracking(s, tripId, t) ==
    [s EXCEPT !.isTracking = TRUE, !.isPaused = FALSE, !.currentTripId = tripId,
              !.tripStartTime = t, !.totalDistance = 0, !.avgSpeed = 0,
              !.maxSpeed = 0, !.elapsedTime = 0, !.gpsStatus = "searching"]

\* Faulty restoreTracking: the totals start from zero as in startTracking
storeRestoreTracking_ZeroTotals(s, tripId, startTime, totalDistance, maxSpeed, avgSpeed, t) ==
    [s EXCEPT !.isTracking = TRUE, !.isPaused = FALSE, !.currentTripId = tripId,
              !.tripStartTime = startTime, !.totalDistance = 0,
              !.maxSpeed = 0, !.avgSpeed = 0,
              !.elapsedTime = (t - startTime) \div MsPerSecond,
              !.gpsStatus = "searching"]

storeRestoreTracking(s, tripId, startTime, totalDistance, maxSpeed, avgSpeed, t) ==
    [s EXCEPT !.isTracking = TRUE, !.isPaused = FALSE, !.currentTripId = tripId,
              !.tripStartTime = startTime, !.totalDistance = totalDistance,
              !.maxSpeed = maxSpeed, !.avgSpeed = avgSpeed,
              !.elapsedTime = (t - startTime) \div MsPerSecond,
              !.gpsStatus = "searching"]

storeStopTracking(s) ==
    [s EXCEPT !.isTracking = FALSE, !.isPaused = FALSE,
              !.currentTripId = NoTrip, !.tripStartTime = 0]

storePauseTracking(s) == [s EXCEPT !.isPaused = TRUE]

\* Faulty resumeTracking: the pause flag is left as it is
storeResumeTracking_KeepsPause(s) == s

storeResumeTracking(s) == [s EXCEPT !.isPaused = FALSE]

\* Faulty updateLocation: the maximum follows the current speed
storeUpdateLocation_MaxIsCurrent(s, location, speed) ==
    [s EXCEPT !.currentSpeed = speed, !.lastLocation = location,
              !.maxSpeed = speed, !.gpsStatus = "acquired"]

storeUpdateLocation(s, location, speed) ==
    [s EXCEPT !.currentSpeed = speed, !.lastLocation = location,
              !.maxSpeed = Max(s.maxSpeed, speed), !.gpsStatus = "acquired"]

\* Faulty updateDistance: the increment is taken off the total
storeUpdateDistance_Subtracts(s, distance, t) ==
    [s EXCEPT !.totalDistance = s.totalDistance - distance]

\* (newTotalDistance / 1000) / (elapsedMs / 3 600 000), in hundredths of km/h
storeUpdateDistance(s, distance, t) ==
    LET newTotalDistance == s.totalDistance + distance
        elapsedMs == IF s.tripStartTime # 0 THEN t - s.tripStartTime ELSE 0
    IN  [s EXCEPT !.totalDistance = newTotalDistance,
                  !.avgSpeed = IF elapsedMs > 0
                               THEN (newTotalDistance * 360000) \div elapsedMs
                               ELSE 0]

storeUpdateGpsStatus(s, gpsStatus) == [s EXCEPT !.gpsStatus = gpsStatus]

storeUpdatesElapsedTime(s) == s.tripStartTime # 0 /\ s.isTracking /\ ~s.isPaused

\* Faulty updateElapsedTime: the average speed is left as it was
storeUpdateElapsedTime_KeepsAvg(s, t) ==
    IF storeUpdatesElapsedTime(s)
    THEN [s EXCEPT !.elapsedTime = (t - s.tripStartTime) \div MsPerSecond]
    ELSE s

storeUpdateElapsedTime(s, t) ==
    IF storeUpdatesElapsedTime(s)
    THEN LET elapsedTime == (t - s.tripStartTime) \div MsPerSecond
         IN  [s EXCEPT !.elapsedTime = elapsedTime,
                       !.avgSpeed = IF elapsedTime > 0
                                    THEN (s.totalDistance * 360) \div elapsedTime
                                    ELSE 0]
    ELSE s

----------------------------------------------------------------------------
(* Queue entries and samples *)

NoPoint == [seq |-> 0, tripId |-> NoTrip, latitude |-> 0, speed |-> Null, timestamp |-> 0]

Call(op, tripId, point, newDistance, speed, avgSpeed) ==
    [op |-> op, tripId |-> tripId, point |-> point, newDistance |-> newDistance,
     speed |-> speed, avgSpeed |-> avgSpeed]

SimpleCall(op) == Call(op, NoTrip, NoPoint, 0, 0, 0)

\* The call at the head of the queue resolves; its continuation is a task of
\* its own, so a pending re-render runs first
HeadIs(op) == ~dirty /\ dbQueue # <<>> /\ Head(dbQueue).op = op

NumCalls(op) == Cardinality({i \in 1..Len(dbQueue) : dbQueue[i].op = op})

Hist(act) == [hist EXCEPT !.act = act]

\* History of the low-speed period of the tracked trip: since when the
\* accepted samples have been below the auto-pause threshold, when a sample
\* at or above it last ended such a period, and whether the last pause of the
\* trip was made by the debounce
NoPeriod(h) ==
    [h EXCEPT !.lowSince = <<>>, !.cleared = <<>>, !.autoPaused = FALSE,
              !.activeSince = <<>>, !.pausedAt = <<>>]

\* A pause of the tracked trip begins: the samples delivered so far lie
\* before it, those delivered after the pause has ended have a higher number
PauseBegins(h) ==
    IF store.isTracking /\ ~store.isPaused
    THEN [h EXCEPT !.pausedAt = <<nSamples>>] ELSE h

\* Since when the trip has been Active without a break; a stop() that has
\* returned is remembered in stopped until a trip is started or restored
ActiveFrom(h, t) == [h EXCEPT !.activeSince = <<t>>, !.stopped = FALSE]

\* External events (commands and samples) are explored up to MaxEvents per run,
\* within the first MaxTime seconds; the watchdog horizon beyond is silence
Budget == nCalls + nSamples < MaxEvents /\ now <= (MaxTime + 1) * TickMs

----------------------------------------------------------------------------
\* The hook mounts in a fresh process over the trips table as it was left; the
\* start() that created a persisted trip counts as an event of the run
Mounted(persisted, counts) ==
    /\ store = initialState
    /\ rendered = initialState
    /\ dirty = FALSE
    /\ refs = [tripId |-> NoTrip, isPaused |-> FALSE, lastLocation |-> Null,
               totalDistance |-> 0, maxSpeed |-> 0, tripStartTime |-> 0,
               lastGpsUpdate |-> TickMs]
    /\ timers = [tick |-> Null, gpsLoss |-> Null, stationary |-> Null]
    /\ trips = persisted
    /\ pointCount = counts
    /\ dbQueue = <<SimpleCall("checkInit")>>
    /\ subscription = [open |-> FALSE, avgSpeed |-> 0]
    /\ startPc = "idle"
    /\ stopPc = "idle"
    /\ restorePc = "idle"
    /\ now = TickMs
    /\ nSamples = 0
    /\ faults = 0
    /\ nCalls = Len(persisted)
    /\ settings \in {[autoPauseEnabled |-> b, autoPauseThreshold |-> 2, unit |-> "kmh"]
                       : b \in BOOLEAN}
    /\ hist = [act |-> "init", maxSeen |-> 0, startFromTracking |-> FALSE,
               lowSince |-> Null, cleared |-> Null, autoPaused |-> FALSE,
               activeSince |-> Null, sampled |-> Null, stopped |-> FALSE,
               pausedAt |-> Null,
               startFailed |-> FALSE, stopTrip |-> NoTrip,
               stopFromTracking |-> FALSE]

\* First launch: no trip has been recorded
Init == Mounted(<<>>, <<>>)

\* A trip left 'active' by a process that was killed while tracking it, with
\* the totals of its last updateTripStats
PersistedTrips ==
    {[startTime |-> TickMs \div 2, endTime |-> 0, totalDistance |-> d[1],
      maxSpeed |-> d[2], avgSpeed |-> d[2], status |-> "active"]
       : d \in {<<0, 0>>, <<MetersPerStep, 10 * MS_TO_KMH>>}}

\* Launch after the process was killed during a trip
InitRecovery == \E trip \in PersistedTrips : Mounted(<<trip>>, <<1>>)

----------------------------------------------------------------------------
(* Render: the hook re-renders after a store change and runs its effects *)

\* Faulty ref sync: lastLocationRef is left out of the effect
syncRefs_KeepsLastLocation(r, s) ==
    [r EXCEPT !.tripId = s.currentTripId, !.isPaused = s.isPaused,
              !.totalDistance = s.totalDistance, !.maxSpeed = s.maxSpeed]

\* Faulty ref sync: the running totals are left out of the effect
syncRefs_KeepsTotals(r, s) ==
    [r EXCEPT !.tripId = s.currentTripId, !.isPaused = s.isPaused,
              !.lastLocation = s.lastLocation]

\* useEffect "Sync refs with store state", lines 65-77
syncRefs(r, s) ==
    [r EXCEPT !.tripId = s.currentTripId, !.isPaused = s.isPaused,
              !.lastLocation = s.lastLocation, !.totalDistance = s.totalDistance,
              !.maxSpeed = s.maxSpeed]

syncDepsChanged(old, new) ==
    \/ old.currentTripId # new.currentTripId
    \/ old.isPaused # new.isPaused
    \/ old.lastLocation # new.lastLocation
    \/ old.totalDistance # new.totalDistance
    \/ old.maxSpeed # new.maxSpeed

\* "Elapsed time timer" effect, lines 157-187
timerDepsChanged(old, new) ==
    \/ old.isTracking # new.isTracking
    \/ old.isPaused # new.isPaused
    \/ old.currentSpeed # new.currentSpeed
    \/ old.lastLocation # new.lastLocation

elapsedTimerEffect(old, new, tick, t) ==
    IF timerDepsChanged(old, new)
    THEN IF new.isTracking /\ ~new.isPaused THEN Some(t + TickMs) ELSE Null
    ELSE tick

\* "GPS loss detection" effect, lines 204-217: checkGpsLoss changes with every
\* store state, so the interval is cleared and set again on every render
gpsLossEffect(new, t) ==
    IF new.isTracking THEN Some(t + GpsLossIntervalMs) ELSE Null

\* "Check for active trip on mount" effect, lines 116-118: checkForActiveTrip
\* changes with every store state.  A run whose captured isTracking is true
\* does nothing (line 85) and is left out.
checkEffect(new, q) ==
    IF ~new.isTracking /\ NumCalls("checkInit") + NumCalls("checkGet") < MaxChecks
    THEN Append(q, SimpleCall("checkInit"))
    ELSE q

Render ==
    /\ dirty
    /\ rendered' = store
    /\ dirty' = FALSE
    /\ refs' = IF syncDepsChanged(rendered, store) THEN syncRefs(refs, store) ELSE refs
    /\ timers' = [timers EXCEPT
                    !.tick = elapsedTimerEffect(rendered, store, @, now),
                    !.gpsLoss = gpsLossEffect(store, now)]
    /\ dbQueue' = checkEffect(store, dbQueue)
    /\ hist' = Hist("render")
    /\ UNCHANGED <<store, trips, pointCount, subscription, startPc, stopPc,
                   restorePc, now, nSamples, faults, settings, nCalls>>

----------------------------------------------------------------------------
(* checkForActiveTrip, lines 80-113 *)

DbCheckInit ==
    /\ HeadIs("checkInit")
    /\ dbQueue' = Append(Tail(dbQueue), SimpleCall("checkGet"))
    /\ hist' = Hist("db")
    /\ UNCHANGED <<store, rendered, dirty, refs, timers, trips, pointCount,
                   subscription, startPc, stopPc, restorePc, now, nSamples,
                   faults, settings, nCalls>>

\* getActiveTrip: SELECT * FROM trips WHERE status = 'active' LIMIT 1
ActiveIds == {i \in 1..Len(trips) : trips[i].status = "active"}

getActiveTrip == IF ActiveIds = {} THEN NoTrip
                 ELSE CHOOSE i \in ActiveIds : \A j \in ActiveIds : i <= j

\* The continuation of getActiveTrip; the captured isTracking is false.
\* startFullTracking is called: its synchronous part removes the current
\* foreground subscription, then it awaits the location source.
DbCheckGet ==
    /\ HeadIs("checkGet")
    /\ dbQueue' = Tail(dbQueue)
    /\ LET id == getActiveTrip IN
       IF id # NoTrip
       THEN /\ refs' = [refs EXCEPT !.tripId = id, !.isPaused = FALSE,
                                    !.totalDistance = trips[id].totalDistance,
                                    !.maxSpeed = trips[id].maxSpeed,
                                    !.tripStartTime = trips[id].startTime]
            /\ store' = storeRestoreTracking(store, id, trips[id].startTime,
                            trips[id].totalDistance, trips[id].maxSpeed,
                            trips[id].avgSpeed, now)
            /\ dirty' = TRUE
            /\ subscription' = [open |-> FALSE, avgSpeed |-> rendered.avgSpeed]
            /\ restorePc' = "full"
            /\ hist' = ActiveFrom(NoPeriod([hist EXCEPT !.act = "restored",
                                              !.maxSeen = trips[id].maxSpeed]), now)
       ELSE /\ hist' = Hist("db")
            /\ UNCHANGED <<refs, store, dirty, subscription, restorePc>>
    /\ UNCHANGED <<rendered, timers, trips, pointCount, startPc, stopPc, now,
                   nSamples, faults, settings, nCalls>>

\* startFullTracking resolves for the restored trip; its result is not used
RestoreFull(ok) ==
    /\ restorePc = "full"
    /\ ~dirty
    /\ restorePc' = "idle"
    /\ subscription' = [subscription EXCEPT !.open = ok]
    /\ hist' = Hist("restoreFull")
    /\ UNCHANGED <<store, rendered, dirty, refs, timers, trips, pointCount,
                   dbQueue, startPc, stopPc, now, nSamples, faults, settings, nCalls>>

----------------------------------------------------------------------------
(* startTracking, lines 372-422 *)

\* Faulty guard: the permission status is not looked at
startProceeds_Always(foreground) == TRUE

\* Lines 375-379: the call goes on only with the foreground permission
startProceeds(foreground) == foreground

\* The call up to the result of checkPermissionStatus, then initDatabase()
StartCall(granted) ==
    /\ startPc = "idle"
    /\ ~dirty
    /\ Budget
    /\ nCalls' = nCalls + 1
    /\ Len(trips) < MaxTrips
    /\ IF startProceeds(granted)
       THEN /\ startPc' = "db"
            /\ dbQueue' = Append(dbQueue, Call("startInit", NoTrip, NoPoint, 0, 0,
                                               rendered.avgSpeed))
       ELSE UNCHANGED <<startPc, dbQueue>>
    /\ hist' = [hist EXCEPT !.act = IF granted THEN "startCall" ELSE "startDenied",
                            !.startFromTracking = store.isTracking,
                            !.startFailed = FALSE]
    /\ UNCHANGED <<store, rendered, dirty, refs, timers, trips, pointCount,
                   subscription, stopPc, restorePc, now, nSamples, faults, settings>>

DbStartInit ==
    /\ HeadIs("startInit")
    /\ dbQueue' = Append(Tail(dbQueue), [Head(dbQueue) EXCEPT !.op = "startCreate"])
    /\ hist' = Hist("db")
    /\ UNCHANGED <<store, rendered, dirty, refs, timers, trips, pointCount,
                   subscription, startPc, stopPc, restorePc, now, nSamples,
                   faults, settings, nCalls>>

\* createTrip: INSERT INTO trips (start_time, status) VALUES (now, 'active')
createTrip(t) ==
    Append(trips, [startTime |-> t, endTime |-> 0, totalDistance |-> 0,
                   maxSpeed |-> 0, avgSpeed |-> 0, status |-> "active"])

\* createTrip resolved: refs, store, then startFullTracking is called, whose
\* synchronous part removes the current foreground subscription
DbStartCreate ==
    /\ HeadIs("startCreate")
    /\ dbQueue' = Tail(dbQueue)
    /\ trips' = createTrip(now)
    /\ pointCount' = Append(pointCount, 0)
    /\ LET tripId == Len(trips) + 1 IN
       /\ refs' = [refs EXCEPT !.tripId = tripId, !.isPaused = FALSE,
                               !.lastLocation = Null, !.totalDistance = 0,
                               !.maxSpeed = 0, !.tripStartTime = now]
       /\ store' = storeStartTracking(store, tripId, now)
    /\ dirty' = TRUE
    /\ subscription' = [open |-> FALSE, avgSpeed |-> Head(dbQueue).avgSpeed]
    /\ startPc' = "full"
    /\ hist' = ActiveFrom(NoPeriod([hist EXCEPT !.act = "startCreated",
                                                   !.maxSeen = 0]), now)
    /\ UNCHANGED <<rendered, timers, stopPc, restorePc, now, nSamples, faults,
                   settings, nCalls>>

\* createTrip rejected: the catch block, lines 416-420
DbStartCreateFails ==
    /\ HeadIs("startCreate")
    /\ faults < MaxFaults
    /\ faults' = faults + 1
    /\ dbQueue' = Tail(dbQueue)
    /\ refs' = [refs EXCEPT !.tripId = NoTrip]
    /\ store' = storeStopTracking(store)
    /\ dirty' = TRUE
    /\ startPc' = "idle"
    /\ hist' = NoPeriod(Hist("startThrew"))
    /\ UNCHANGED <<rendered, timers, trips, pointCount, subscription, stopPc,
                   restorePc, now, nSamples, settings, nCalls>>

\* startFullTracking resolves: lines 397-415
StartFull(success) ==
    /\ startPc = "full"
    /\ ~dirty
    /\ startPc' = "idle"
    /\ IF success
       THEN /\ subscription' = [subscription EXCEPT !.open = TRUE]
            /\ hist' = Hist("startOk")
            /\ UNCHANGED <<refs, store, dirty>>
       ELSE /\ refs' = [refs EXCEPT !.tripId = NoTrip]
            /\ store' = storeStopTracking(store)
            /\ dirty' = TRUE
            /\ hist' = NoPeriod([hist EXCEPT !.act = "startFailed", !.startFailed = TRUE])
            /\ UNCHANGED subscription
    /\ UNCHANGED <<rendered, timers, trips, pointCount, dbQueue, stopPc,
                   restorePc, now, nSamples, faults, settings, nCalls>>

----------------------------------------------------------------------------
(* handleLocationUpdate, lines 263-364 *)

Samples == {[seq |-> nSamples + 1, tripId |-> refs.tripId, latitude |-> lat,
             speed |-> sp, timestamp |-> now] : lat \in Lats, sp \in DeviceSpeeds}

\* Faulty guard: the pause flag is not looked at
acceptsSample_IgnoresPause(r) == r.tripId # NoTrip

\* Lines 280-288: the sample goes on only with a trip that is not paused
acceptsSample(r) == r.tripId # NoTrip /\ ~r.isPaused

\* The callback up to its first await (initDatabase)
DeliverSample(newPoint) ==
    /\ subscription.open
    /\ ~dirty
    /\ Budget
    /\ nSamples < MaxSamples
    /\ nSamples' = nSamples + 1
    /\ refs' = [refs EXCEPT !.lastGpsUpdate = now]
    /\ IF acceptsSample(refs)
       THEN /\ dbQueue' = Append(dbQueue, Call("sampleInit", refs.tripId, newPoint,
                                               0, 0, subscription.avgSpeed))
            /\ hist' = Hist("sampleTaken")
       ELSE /\ dbQueue' = dbQueue
            /\ hist' = Hist("sampleSkipped")
    /\ UNCHANGED <<store, rendered, dirty, timers, trips, pointCount, subscription,
                   startPc, stopPc, restorePc, now, faults, settings, nCalls>>

\* Lines 312-326
distanceIncrement(newPoint, lastLocation, speed) ==
    IF lastLocation # Null /\ speed > 0
    THEN haversineDistance(lastLocation[1], newPoint)
    ELSE 0

\* handleStationaryDetection, lines 220-260; speeds in hundredths of km/h
autoPauseThreshold ==
    IF settings.unit = "mph"
    THEN (settings.autoPauseThreshold * 621371) \div 10000
    ELSE settings.autoPauseThreshold * 100

\* Faulty debounce: every sample below the threshold restarts the timer
stationaryTimerAfter_Rearms(speed, timer, t) ==
    IF ~settings.autoPauseEnabled \/ refs.isPaused THEN timer
    ELSE IF speed < autoPauseThreshold
         THEN Some(t + StationaryDurationS * MsPerSecond)
         ELSE Null

\* Faulty debounce: a sample at or above the threshold leaves the timer armed
stationaryTimerAfter_KeepsOnFast(speed, timer, t) ==
    IF ~settings.autoPauseEnabled \/ refs.isPaused THEN timer
    ELSE IF speed < autoPauseThreshold /\ timer = Null
         THEN Some(t + StationaryDurationS * MsPerSecond)
         ELSE timer

\* Lines 223-249: one debounce timer, armed by a sample below the threshold
\* when none is armed, cleared by a sample at or above it
stationaryTimerAfter(speed, timer, t) ==
    IF ~settings.autoPauseEnabled \/ refs.isPaused THEN timer
    ELSE IF speed < autoPauseThreshold
         THEN IF timer = Null THEN Some(t + StationaryDurationS * MsPerSecond) ELSE timer
         ELSE Null

stationaryResumes(speed) ==
    /\ settings.autoPauseEnabled /\ ~refs.isPaused
    /\ speed >= autoPauseThreshold
    /\ refs.isPaused

\* Lines 328-333
storeAfterSample(s, newPoint, speed, increment, t) ==
    LET s1 == storeUpdateLocation(s, Some(newPoint), speed)
        s2 == IF increment > 0 THEN storeUpdateDistance(s1, increment, t) ELSE s1
    IN  IF stationaryResumes(speed) THEN storeResumeTracking(s2) ELSE s2

\* An accepted sample of an Active trip continues or ends the low-speed period
SpeedSeen(h, speed, t) ==
    IF ~settings.autoPauseEnabled \/ ~store.isTracking \/ store.isPaused THEN h
    ELSE IF speed < autoPauseThreshold
         THEN [h EXCEPT !.lowSince = IF @ = Null THEN Some(t) ELSE @]
         ELSE [h EXCEPT !.lowSince = Null,
                        !.cleared = IF h.lowSince # Null THEN Some(t) ELSE @]

\* The in-memory aggregate as the last accepted sample left it, kept until
\* the writes of that sample have ended
Sampled(h, point, s) ==
    [h EXCEPT !.sampled = Some([seq |-> point.seq, tripId |-> s.currentTripId,
                                totalDistance |-> s.totalDistance,
                                maxSpeed |-> s.maxSpeed])]

WritesEnded(h, point) ==
    IF h.sampled # Null /\ h.sampled[1].seq = point.seq
    THEN [h EXCEPT !.sampled = Null] ELSE h

\* initDatabase resolved: lines 292-349, up to await addLocationPoint
DbSampleInit ==
    /\ HeadIs("sampleInit")
    /\ LET c == Head(dbQueue)
           speed == calculateSpeed(c.point, refs.lastLocation)
           increment == distanceIncrement(c.point, refs.lastLocation, speed)
       IN  /\ store' = storeAfterSample(store, c.point, speed, increment, now)
           /\ timers' = [timers EXCEPT
                           !.stationary = stationaryTimerAfter(speed, @, now)]
           /\ dbQueue' = Append(Tail(dbQueue),
                                [c EXCEPT !.op = "addLocationPoint", !.speed = speed,
                                          !.newDistance = refs.totalDistance + increment])
           /\ hist' = Sampled(SpeedSeen([hist EXCEPT !.act = "sampleAccepted",
                                                     !.maxSeen = Max(@, speed)],
                                           speed, now),
                                 c.point,
                                 storeAfterSample(store, c.point, speed, increment, now))
    /\ dirty' = TRUE
    /\ UNCHANGED <<rendered, refs, trips, pointCount, subscription, startPc,
                   stopPc, restorePc, now, nSamples, faults, settings, nCalls>>

\* addLocationPoint: INSERT INTO location_points ...; then updateTripStats is
\* called with maxSpeedRef as it is now
DbAddLocationPoint ==
    /\ HeadIs("addLocationPoint")
    /\ LET c == Head(dbQueue) IN
       /\ pointCount' = [pointCount EXCEPT ![c.tripId] = @ + 1]
       /\ dbQueue' = Append(Tail(dbQueue),
                            [c EXCEPT !.op = "updateTripStats",
                                      !.speed = Max(refs.maxSpeed, c.speed)])
    /\ hist' = Hist("db")
    /\ UNCHANGED <<store, rendered, dirty, refs, timers, trips, subscription,
                   startPc, stopPc, restorePc, now, nSamples, faults, settings, nCalls>>

\* updateTripStats: UPDATE trips SET total_distance, max_speed, avg_speed WHERE id
updateTripStats(tripId, totalDistance, maxSpeed, avgSpeed) ==
    [trips EXCEPT ![tripId].totalDistance = totalDistance,
                  ![tripId].maxSpeed = maxSpeed,
                  ![tripId].avgSpeed = avgSpeed]

DbUpdateTripStats ==
    /\ HeadIs("updateTripStats")
    /\ LET c == Head(dbQueue) IN
       trips' = updateTripStats(c.tripId, c.newDistance, c.speed, c.avgSpeed)
    /\ dbQueue' = Tail(dbQueue)
    /\ hist' = WritesEnded(Hist("statsSaved"), Head(dbQueue).point)
    /\ UNCHANGED <<store, rendered, dirty, refs, timers, pointCount, subscription,
                   startPc, stopPc, restorePc, now, nSamples, faults, settings, nCalls>>

\* Faulty catch block: a rejected write ends the tracking
DbSaveFails_StopsTracking ==
    /\ HeadIs("addLocationPoint") \/ HeadIs("updateTripStats")
    /\ faults < MaxFaults
    /\ faults' = faults + 1
    /\ dbQueue' = Tail(dbQueue)
    /\ store' = storeStopTracking(store)
    /\ dirty' = TRUE
    /\ hist' = WritesEnded(Hist("saveFailed"), Head(dbQueue).point)
    /\ UNCHANGED <<rendered, refs, timers, trips, pointCount,
                   subscription, startPc, stopPc, restorePc, now, nSamples, settings, nCalls>>

\* A rejected write: the catch block, lines 359-361
DbSaveFails ==
    /\ HeadIs("addLocationPoint") \/ HeadIs("updateTripStats")
    /\ faults < MaxFaults
    /\ faults' = faults + 1
    /\ dbQueue' = Tail(dbQueue)
    /\ hist' = WritesEnded(Hist("saveFailed"), Head(dbQueue).point)
    /\ UNCHANGED <<store, rendered, dirty, refs, timers, trips, pointCount,
                   subscription, startPc, stopPc, restorePc, now, nSamples, settings, nCalls>>

----------------------------------------------------------------------------
(* stopTracking, lines 425-455 *)

\* The call: stopFullTracking removes the foreground subscription at once
StopCall ==
    /\ stopPc = "idle"
    /\ ~dirty
    /\ Budget
    /\ nCalls' = nCalls + 1
    /\ stopPc' = "full"
    /\ subscription' = [subscription EXCEPT !.open = FALSE]
    /\ hist' = [hist EXCEPT !.act = "stopCall", !.stopTrip = store.currentTripId,
                            !.stopFromTracking = store.isTracking]
    /\ UNCHANGED <<store, rendered, dirty, refs, timers, trips, pointCount,
                   dbQueue, startPc, restorePc, now, nSamples, faults, settings>>

\* stopFullTracking resolved: lines 429-432
StopFull ==
    /\ stopPc = "full"
    /\ ~dirty
    /\ IF refs.tripId # NoTrip
       THEN /\ stopPc' = "db"
            /\ dbQueue' = Append(dbQueue, Call("stopInit", refs.tripId, NoPoint, 0, 0, 0))
       ELSE /\ stopPc' = "hide"
            /\ dbQueue' = dbQueue
    /\ hist' = Hist("stopFull")
    /\ UNCHANGED <<store, rendered, dirty, refs, timers, trips, pointCount,
                   subscription, startPc, restorePc, now, nSamples, faults, settings, nCalls>>

DbStopInit ==
    /\ HeadIs("stopInit")
    /\ dbQueue' = Append(Tail(dbQueue), [Head(dbQueue) EXCEPT !.op = "completeTrip"])
    /\ hist' = Hist("db")
    /\ UNCHANGED <<store, rendered, dirty, refs, timers, trips, pointCount,
                   subscription, startPc, stopPc, restorePc, now, nSamples,
                   faults, settings, nCalls>>

\* completeTrip: UPDATE trips SET status = 'completed', end_time = now WHERE id
completeTrip(tripId, t) ==
    [trips EXCEPT ![tripId].status = "completed", ![tripId].endTime = t]

DbCompleteTrip ==
    /\ HeadIs("completeTrip")
    /\ trips' = completeTrip(Head(dbQueue).tripId, now)
    /\ dbQueue' = Tail(dbQueue)
    /\ stopPc' = "hide"
    /\ hist' = Hist("completed")
    /\ UNCHANGED <<store, rendered, dirty, refs, timers, pointCount, subscription,
                   startPc, restorePc, now, nSamples, faults, settings, nCalls>>

\* completeTrip rejected: the catch block, lines 452-454
DbCompleteTripFails ==
    /\ HeadIs("completeTrip")
    /\ faults < MaxFaults
    /\ faults' = faults + 1
    /\ dbQueue' = Tail(dbQueue)
    /\ stopPc' = "idle"
    /\ hist' = [Hist("stopThrew") EXCEPT !.stopped = TRUE]
    /\ UNCHANGED <<store, rendered, dirty, refs, timers, trips, pointCount,
                   subscription, startPc, restorePc, now, nSamples, settings, nCalls>>

\* hideTrackingNotification resolved: lines 438-451
StopFinish ==
    /\ stopPc = "hide"
    /\ ~dirty
    /\ stopPc' = "idle"
    /\ refs' = [refs EXCEPT !.tripId = NoTrip, !.isPaused = FALSE,
                            !.lastLocation = Null, !.tripStartTime = 0]
    /\ timers' = [timers EXCEPT !.stationary = Null]
    /\ store' = initialState
    /\ dirty' = TRUE
    /\ hist' = NoPeriod([hist EXCEPT !.act = "stopDone", !.maxSeen = 0,
                                     !.stopped = TRUE])
    /\ UNCHANGED <<rendered, trips, pointCount, dbQueue, subscription, startPc,
                   restorePc, now, nSamples, faults, settings, nCalls>>

----------------------------------------------------------------------------
(* pauseTracking and resumeTracking, lines 458-467 *)

PauseCall ==
    /\ ~dirty
    /\ Budget
    /\ nCalls' = nCalls + 1
    /\ refs' = [refs EXCEPT !.isPaused = TRUE]
    /\ store' = storePauseTracking(store)
    /\ dirty' = TRUE
    /\ hist' = [PauseBegins(Hist("pause")) EXCEPT
                 !.lowSince = Null, !.activeSince = Null,
                 !.autoPaused = IF store.isPaused THEN @ ELSE FALSE]
    /\ UNCHANGED <<rendered, timers, trips, pointCount, dbQueue, subscription,
                   startPc, stopPc, restorePc, now, nSamples, faults, settings>>

ResumeCall ==
    /\ ~dirty
    /\ Budget
    /\ nCalls' = nCalls + 1
    /\ refs' = [refs EXCEPT !.isPaused = FALSE]
    /\ store' = storeResumeTracking(store)
    /\ dirty' = TRUE
    /\ hist' = [Hist("resume") EXCEPT
                 !.lowSince = Null,
                 !.activeSince = IF store.isTracking /\ store.isPaused
                                 THEN Some(now) ELSE @]
    /\ UNCHANGED <<rendered, timers, trips, pointCount, dbQueue, subscription,
                   startPc, stopPc, restorePc, now, nSamples, faults, settings>>

----------------------------------------------------------------------------
(* Timers *)

\* Faulty decay: the silence is never long enough
speedDecays_Never(r, captured, t) == FALSE

\* Speed decay, lines 163-170, with the store state the interval captured
speedDecays(r, captured, t) ==
    t - r.lastGpsUpdate > DecayMs /\ captured.currentSpeed > 0

\* The 1 s interval, lines 159-171
Tick ==
    /\ timers.tick = Some(now)
    /\ ~dirty
    /\ timers' = [timers EXCEPT !.tick = Some(now + TickMs)]
    /\ LET s1 == storeUpdateElapsedTime(store, now) IN
       /\ store' = IF speedDecays(refs, rendered, now)
                   THEN storeUpdateLocation(s1, rendered.lastLocation, 0)
                   ELSE s1
       /\ dirty' = (storeUpdatesElapsedTime(store) \/ speedDecays(refs, rendered, now))
    /\ hist' = Hist(IF speedDecays(refs, rendered, now) THEN "speedDecay" ELSE "tick")
    /\ UNCHANGED <<rendered, refs, trips, pointCount, dbQueue, subscription,
                   startPc, stopPc, restorePc, now, nSamples, faults, settings, nCalls>>

\* Faulty watchdog: the pause flag is not looked at
marksGpsLost_IgnoresPause(r, captured, t) ==
    /\ t - r.lastGpsUpdate > GpsLossMs
    /\ captured.gpsStatus # "lost"

\* checkGpsLoss, lines 190-202, on the 5 s interval
marksGpsLost(r, captured, t) ==
    /\ ~r.isPaused
    /\ t - r.lastGpsUpdate > GpsLossMs
    /\ captured.gpsStatus # "lost"

CheckGpsLoss ==
    /\ timers.gpsLoss = Some(now)
    /\ ~dirty
    /\ timers' = [timers EXCEPT !.gpsLoss = Some(now + GpsLossIntervalMs)]
    /\ store' = IF marksGpsLost(refs, rendered, now)
                THEN storeUpdateGpsStatus(store, "lost") ELSE store
    /\ dirty' = marksGpsLost(refs, rendered, now)
    /\ hist' = Hist("gpsCheck")
    /\ UNCHANGED <<rendered, refs, trips, pointCount, dbQueue, subscription,
                   startPc, stopPc, restorePc, now, nSamples, faults, settings, nCalls>>

\* The auto-pause debounce fires, lines 234-239
StationaryTimeout ==
    /\ timers.stationary = Some(now)
    /\ ~dirty
    /\ timers' = [timers EXCEPT !.stationary = Null]
    /\ store' = IF refs.tripId # NoTrip /\ ~refs.isPaused
                THEN storePauseTracking(store) ELSE store
    /\ dirty' = (refs.tripId # NoTrip /\ ~refs.isPaused)
    /\ hist' = IF refs.tripId # NoTrip /\ ~refs.isPaused
               THEN [PauseBegins(hist) EXCEPT !.act = "stationaryTimeout", !.lowSince = Null,
                                 !.activeSince = Null,
                                 !.autoPaused = settings.autoPauseEnabled]
               ELSE Hist("stationaryTimeout")
    /\ UNCHANGED <<rendered, refs, trips, pointCount, dbQueue, subscription,
                   startPc, stopPc, restorePc, now, nSamples, faults, settings, nCalls>>

\* Time passes when nothing is pending and no armed timer is due
Due(timer) == timer # Null /\ timer[1] <= now

Quiet == /\ ~dirty /\ dbQueue = <<>>
         /\ startPc = "idle" /\ stopPc = "idle" /\ restorePc = "idle"

AdvanceTimeTo(limit) ==
    /\ Quiet
    /\ ~Due(timers.tick) /\ ~Due(timers.gpsLoss) /\ ~Due(timers.stationary)
    /\ now < limit
    /\ now' = now + TickMs
    /\ hist' = Hist("time")
    /\ UNCHANGED <<store, rendered, dirty, refs, timers, trips, pointCount,
                   dbQueue, subscription, startPc, stopPc, restorePc, nSamples,
                   faults, settings, nCalls>>

AdvanceTime == AdvanceTimeTo((MaxTime + 1) * TickMs)

\* Time over the longer horizon of the GPS-loss watchdog
WatchAdvanceTime == AdvanceTimeTo((MaxWatchTime + 1) * TickMs)

----------------------------------------------------------------------------
Next ==
    \/ Render
    \/ DbCheckInit
    \/ DbCheckGet
    \/ \E ok \in BOOLEAN : RestoreFull(ok)
    \/ \E granted \in BOOLEAN : StartCall(granted)
    \/ DbStartInit
    \/ DbStartCreate
    \/ DbStartCreateFails
    \/ \E success \in BOOLEAN : StartFull(success)
    \/ \E newPoint \in Samples : DeliverSample(newPoint)
    \/ DbSampleInit
    \/ DbAddLocationPoint
    \/ DbUpdateTripStats
    \/ DbSaveFails
    \/ StopCall
    \/ StopFull
    \/ DbStopInit
    \/ DbCompleteTrip
    \/ DbCompleteTripFails
    \/ StopFinish
    \/ PauseCall
    \/ ResumeCall
    \/ Tick
    \/ CheckGpsLoss
    \/ StationaryTimeout
    \/ AdvanceTime

Spec == Init /\ [][Next]_vars

\* A trip watched over a long silence: start, samples, pause and resume, the
\* timers, and time up to MaxWatchTime; no stop() and no failing database call
NextWatch ==
    \/ Render
    \/ DbCheckInit
    \/ DbCheckGet
    \/ \E ok \in BOOLEAN : RestoreFull(ok)
    \/ \E granted \in BOOLEAN : StartCall(granted)
    \/ DbStartInit
    \/ DbStartCreate
    \/ \E success \in BOOLEAN : StartFull(success)
    \/ \E newPoint \in Samples : DeliverSample(newPoint)
    \/ DbSampleInit
    \/ DbAddLocationPoint
    \/ DbUpdateTripStats
    \/ PauseCall
    \/ ResumeCall
    \/ Tick
    \/ CheckGpsLoss
    \/ StationaryTimeout
    \/ WatchAdvanceTime

SpecWatch == Init /\ [][NextWatch]_vars

SpecRecovery == InitRecovery /\ [][Next]_vars

\* A trip being tracked: start() from Idle went through at TickMs and the
\* mount check found nothing; either no sample has arrived, or one sample
\* with device speed 1 m/s was accepted and saved.  The events of the run are
\* counted from here.
FirstPoint ==
    [seq |-> 0, tripId |-> 1, latitude |-> 0, speed |-> Some(10), timestamp |-> TickMs]

InitTracking ==
    \E prev \in {Null, Some(FirstPoint)} :
       LET started == storeStartTracking(initialState, 1, TickMs)
           speed == IF prev = Null THEN 0 ELSE calculateSpeed(prev[1], Null)
       IN
       /\ store = IF prev = Null THEN started
                  ELSE storeUpdateLocation(started, prev, speed)
       /\ rendered = store
       /\ dirty = FALSE
       /\ refs = [tripId |-> 1, isPaused |-> FALSE, lastLocation |-> prev,
                  totalDistance |-> 0, maxSpeed |-> speed, tripStartTime |-> TickMs,
                  lastGpsUpdate |-> TickMs]
       /\ timers = [tick |-> Some(2 * TickMs),
                    gpsLoss |-> Some(TickMs + GpsLossIntervalMs),
                    stationary |-> Null]
       /\ trips = <<[startTime |-> TickMs, endTime |-> 0, totalDistance |-> 0,
                     maxSpeed |-> speed, avgSpeed |-> 0, status |-> "active"]>>
       /\ pointCount = <<IF prev = Null THEN 0 ELSE 1>>
       /\ dbQueue = <<>>
       /\ subscription = [open |-> TRUE, avgSpeed |-> 0]
       /\ startPc = "idle"
       /\ stopPc = "idle"
       /\ restorePc = "idle"
       /\ now = TickMs
       /\ nSamples = 0
       /\ faults = 0
       /\ nCalls = 0
       /\ settings \in {[autoPauseEnabled |-> b, autoPauseThreshold |-> 2, unit |-> "kmh"]
                          : b \in BOOLEAN}
       /\ hist = [act |-> IF prev = Null THEN "startOk" ELSE "statsSaved",
                  maxSeen |-> speed, startFromTracking |-> FALSE,
                  lowSince |-> Null, cleared |-> Null, autoPaused |-> FALSE,
                  activeSince |-> Some(TickMs), sampled |-> Null, stopped |-> FALSE,
               pausedAt |-> Null,
                  startFailed |-> FALSE, stopTrip |-> NoTrip,
                  stopFromTracking |-> FALSE]

\* The tracked trip under samples, pause and resume, a further start(), the
\* mount check and the timers; no stop() and no failing database call
NextTracking ==
    \/ Render
    \/ DbCheckInit
    \/ DbCheckGet
    \/ \E ok \in BOOLEAN : RestoreFull(ok)
    \/ \E granted \in BOOLEAN : StartCall(granted)
    \/ DbStartInit
    \/ DbStartCreate
    \/ \E success \in BOOLEAN : StartFull(success)
    \/ \E newPoint \in Samples : DeliverSample(newPoint)
    \/ DbSampleInit
    \/ DbAddLocationPoint
    \/ DbUpdateTripStats
    \/ PauseCall
    \/ ResumeCall
    \/ Tick
    \/ CheckGpsLoss
    \/ StationaryTimeout
    \/ AdvanceTime

SpecTracking == InitTracking /\ [][NextTracking]_vars

\* The sample processor on its inputs: trip 1 is tracked, the last accepted
\* point is prev (or none yet; prev had speed 0 and armed the debounce when
\* auto-pause is on), and a handler awaits initDatabase with a point whose
\* device speed may be missing, negative or zero and whose device timestamp
\* may lie before, at or after that of prev; the unit is km/h or mph
SpeedInputs == DeviceSpeeds \cup {Some(-1), Some(0), Some(5)}

PrevPoints ==
    {Null} \cup {Some([seq |-> 1, tripId |-> 1, latitude |-> lat, speed |-> Null,
                       timestamp |-> 2 * TickMs]) : lat \in Lats}

NewPoints ==
    {[seq |-> 2, tripId |-> 1, latitude |-> lat, speed |-> sp, timestamp |-> t]
       : lat \in Lats, sp \in SpeedInputs, t \in {TickMs, 2 * TickMs, 3 * TickMs}}

InitSpeed ==
    \E prev \in PrevPoints, newPoint \in NewPoints :
       /\ settings \in {[autoPauseEnabled |-> b, autoPauseThreshold |-> 2, unit |-> u]
                          : b \in BOOLEAN, u \in {"kmh", "mph"}}
       /\ store = [storeStartTracking(initialState, 1, TickMs) EXCEPT
                     !.lastLocation = prev,
                     !.gpsStatus = IF prev = Null THEN "searching" ELSE "acquired"]
       /\ rendered = store
       /\ dirty = FALSE
       /\ refs = [tripId |-> 1, isPaused |-> FALSE, lastLocation |-> prev,
                  totalDistance |-> 0, maxSpeed |-> 0, tripStartTime |-> TickMs,
                  lastGpsUpdate |-> 3 * TickMs]
       /\ timers = [tick |-> Some(4 * TickMs),
                    gpsLoss |-> Some(3 * TickMs + GpsLossIntervalMs),
                    stationary |-> IF prev # Null /\ settings.autoPauseEnabled
                                   THEN Some(2 * TickMs + StationaryDurationS * MsPerSecond)
                                   ELSE Null]
       /\ trips = <<[startTime |-> TickMs, endTime |-> 0, totalDistance |-> 0,
                     maxSpeed |-> 0, avgSpeed |-> 0, status |-> "active"]>>
       /\ pointCount = <<IF prev = Null THEN 0 ELSE 1>>
       /\ dbQueue = <<Call("sampleInit", 1, newPoint, 0, 0, 0)>>
       /\ subscription = [open |-> TRUE, avgSpeed |-> 0]
       /\ startPc = "idle"
       /\ stopPc = "idle"
       /\ restorePc = "idle"
       /\ now = 3 * TickMs
       /\ nSamples = MaxSamples
       /\ faults = 0
       /\ nCalls = 1
       /\ hist = [act |-> "init", maxSeen |-> 0, startFromTracking |-> FALSE,
                  lowSince |-> IF prev # Null /\ settings.autoPauseEnabled
                               THEN Some(2 * TickMs) ELSE Null,
                  cleared |-> Null, autoPaused |-> FALSE,
                  activeSince |-> Some(TickMs), sampled |-> Null, stopped |-> FALSE,
                  pausedAt |-> Null,
                  startFailed |-> FALSE, stopTrip |-> NoTrip,
                  stopFromTracking |-> FALSE]

NextSpeed ==
    \/ DbSampleInit
    \/ Render
    \/ DbAddLocationPoint
    \/ DbUpdateTripStats

SpecSpeed == InitSpeed /\ [][NextSpeed]_vars

----------------------------------------------------------------------------
(* The history query *)

\* getAllTrips: SELECT * FROM trips ORDER BY start_time DESC.  The possible
\* results, as sequences of row ids: rows with equal start_time come in any
\* order.  The history screen runs the query whenever it gains focus.
getAllTrips ==
    {rows \in [1..Len(trips) -> 1..Len(trips)] :
       /\ \A i, j \in 1..Len(trips) : rows[i] = rows[j] => i = j
       /\ \A i, j \in 1..Len(trips) :
             i < j => trips[rows[i]].startTime >= trips[rows[j]].startTime}

----------------------------------------------------------------------------
(* Properties *)

\* A step inside one trip: the store tracks the same trip before and after,
\* and the step is no start and no restore (restoreTracking puts the persisted
\* totals back, also when checkForActiveTrip finds the trip being tracked)
WithinTrip ==
    /\ store.isTracking /\ store'.isTracking
    /\ store'.currentTripId = store.currentTripId
    /\ hist'.act \notin {"startCreated", "restored"}

\* C1: during a trip the in-memory totalDistance never decreases, whatever
\* samples, timer ticks, pauses and resumes happen
C1_DistanceNeverDecreases ==
    [][WithinTrip => store'.totalDistance >= store.totalDistance]_vars

\* a trip that has gained distance and was then paused and went on
C1_Witness ==
    /\ store.isTracking /\ store.totalDistance > 0
    /\ hist.act \in {"tick", "speedDecay", "pause", "resume"}

C3_DistancePerSample ==
    [][(hist'.act = "sampleAccepted" /\ store.isTracking /\ ~store.isPaused)
         => store'.totalDistance - store.totalDistance =
              IF store.lastLocation # Null /\ store'.currentSpeed > 0
              THEN haversineDistance(store.lastLocation[1], store'.lastLocation[1])
              ELSE 0]_vars

\* the second of two samples delivered back to back is accepted, with both
\* handlers in flight, and adds its distance
C3_Witness ==
    /\ hist.act = "sampleAccepted" /\ store.isTracking
    /\ store.totalDistance > 0
    /\ NumCalls("addLocationPoint") = 2

\* C4: a sample delivered while the trip is paused changes nothing of the
\* store (currentSpeed, totalDistance, maxSpeed, avgSpeed, lastLocation) and
\* persists nothing: no row is written and no write is queued
C4_PausedSampleIgnored ==
    [][(nSamples' # nSamples /\ store.isTracking /\ store.isPaused)
         => /\ store' = store
            /\ trips' = trips
            /\ pointCount' = pointCount
            /\ dbQueue' = dbQueue]_vars

\* a sample has just been delivered to a paused trip
C4_Witness ==
    /\ hist.act = "sampleSkipped"
    /\ store.isTracking /\ store.isPaused

\* C5: at no time do two persisted trips have the status 'active'
C5_OneActiveTrip == Cardinality(ActiveIds) <= 1

\* C6: a start() called while a trip is tracked creates no trip and leaves
\* the current trip id and the totals as they are
C6_StartWhileTrackingRejected ==
    [][(hist.startFromTracking /\ store.isTracking /\ hist'.act = "startCreated")
         => /\ Len(trips') = Len(trips)
            /\ store'.currentTripId = store.currentTripId
            /\ store'.totalDistance = store.totalDistance
            /\ store'.maxSpeed = store.maxSpeed]_vars

\* C7: after a start() that failed because the location source did not
\* start, the state is Idle with no trip, until start() is called again
C7_FailedStartStaysIdle ==
    hist.startFailed => ~store.isTracking /\ store.currentTripId = NoTrip

\* C8: a start() without the foreground permission creates no trip, queues
\* no database call, opens no subscription and leaves the store as it is
C8_DeniedStartDoesNothing ==
    [][(hist'.act = "startDenied")
         => /\ store' = store
            /\ trips' = trips
            /\ dbQueue' = dbQueue
            /\ subscription' = subscription
            /\ startPc' = startPc]_vars

\* a start() has just been refused for lack of permission, from Idle
C8_Witness == hist.act = "startDenied" /\ ~store.isTracking

\* C9: a start() called from Idle that succeeds creates a new 'active' trip
\* with totalDistance, maxSpeed, avgSpeed and elapsedTime 0, leaves the store
\* tracking, not paused, GPS status searching, and opens the subscription
C9_SuccessfulStart ==
    [][/\ (~hist.startFromTracking /\ hist'.act = "startCreated")
          => /\ Len(trips') = Len(trips) + 1
             /\ trips'[Len(trips')] = [startTime |-> now, endTime |-> 0,
                                        totalDistance |-> 0, maxSpeed |-> 0,
                                        avgSpeed |-> 0, status |-> "active"]
             /\ store'.currentTripId = Len(trips')
             /\ store'.isTracking /\ ~store'.isPaused
             /\ store'.totalDistance = 0 /\ store'.maxSpeed = 0
             /\ store'.avgSpeed = 0 /\ store'.elapsedTime = 0
             /\ store'.gpsStatus = "searching"
       /\ (~hist.startFromTracking /\ hist'.act = "startOk")
          => subscription'.open]_vars

\* a start() from Idle has gone through
C9_Witness ==
    /\ hist.act = "startOk" /\ ~hist.startFromTracking
    /\ store.isTracking /\ subscription.open

\* C10: when a stop() called while a trip is tracked has run to its end, and
\* no database call was rejected, the subscription is closed, the trip is
\* 'completed' with an end time, and the store is back to its initial state
C10_StopCompletes ==
    (hist.act = "stopDone" /\ hist.stopFromTracking /\ hist.stopTrip # NoTrip
       /\ faults = 0)
      => /\ ~subscription.open
         /\ trips[hist.stopTrip].status = "completed"
         /\ trips[hist.stopTrip].endTime # 0
         /\ store = initialState

\* C11: when a stop() of a tracked trip reaches its end with the trip
\* completed, the persisted totalDistance and maxSpeed of the trip are the
\* in-memory values the stop clears
C11_StopPersistsAggregate ==
    [][(/\ hist'.act = "stopDone" /\ hist.stopFromTracking
        /\ hist.stopTrip # NoTrip /\ store.currentTripId = hist.stopTrip
        /\ trips[hist.stopTrip].status = "completed")
         => /\ trips[hist.stopTrip].totalDistance = store.totalDistance
            /\ trips[hist.stopTrip].maxSpeed = store.maxSpeed]_vars

\* C12: a completed trip is immutable: its persisted totals and end time do
\* not change and no location point is added to it
C12_CompletedTripImmutable ==
    [][\A i \in 1..Len(trips) :
          trips[i].status = "completed"
            => trips'[i] = trips[i] /\ pointCount'[i] = pointCount[i]]_vars

\* C13: with auto-pause enabled, an Active trip whose accepted samples have
\* been below the threshold since lowSince is paused by the debounce when 5 s
\* have passed: it is never still Active later than that, and the step that
\* pauses it leaves no timer armed that could pause it a second time
C13_AutoPause ==
    /\ []((/\ settings.autoPauseEnabled /\ store.isTracking /\ ~store.isPaused
           /\ hist.lowSince # Null)
            => now <= hist.lowSince[1] + StationaryDurationS * MsPerSecond)
    /\ [][(hist'.act = "stationaryTimeout" /\ hist'.autoPaused)
            => /\ store.isTracking /\ ~store.isPaused
               /\ store'.isTracking /\ store'.isPaused
               /\ timers'.stationary = Null]_vars

C13_Witness ==
    /\ hist.act = "stationaryTimeout" /\ hist.autoPaused
    /\ store.isTracking /\ store.isPaused
    /\ now >= TickMs + StationaryDurationS * MsPerSecond

\* C14: the debounce is one timer: an accepted sample below the threshold arms
\* it for 5 s when none is armed and leaves an armed one as it is, an accepted
\* sample at or above the threshold clears it, and no auto-pause happens
\* within 5 s after a sample that ended a low-speed period
C14_SingleDebounceTimer ==
    [][/\ (/\ hist'.act = "sampleAccepted" /\ settings.autoPauseEnabled
           /\ store.isTracking /\ ~refs.isPaused)
            => timers'.stationary =
                 IF store'.currentSpeed >= autoPauseThreshold THEN Null
                 ELSE IF timers.stationary = Null
                      THEN Some(now + StationaryDurationS * MsPerSecond)
                      ELSE timers.stationary
       /\ (hist'.act = "stationaryTimeout" /\ store'.isPaused /\ ~store.isPaused
           /\ hist.cleared # Null)
            => now >= hist.cleared[1] + StationaryDurationS * MsPerSecond]_vars

C14_Witness ==
    /\ settings.autoPauseEnabled /\ store.isTracking /\ ~store.isPaused
    /\ hist.cleared # Null /\ timers.stationary = Null
    /\ now >= hist.cleared[1] + StationaryDurationS * MsPerSecond

\* C15: while the trip is Paused because the debounce paused it, a delivered
\* sample whose speed is at or above the threshold makes the trip Active again
C15_AutoResume ==
    [][\A newPoint \in Samples :
         (/\ DeliverSample(newPoint)
          /\ hist.autoPaused /\ store.isTracking /\ store.isPaused
          /\ calculateSpeed(newPoint, refs.lastLocation) >= autoPauseThreshold)
           => ~store'.isPaused]_vars

\* C16: an Active trip that has been Active and without a sample for more than
\* 10 s plus one 5 s watchdog period has GPS health Lost
C16_GpsLossDetected ==
    (/\ store.isTracking /\ ~store.isPaused /\ hist.activeSince # Null
     /\ now - Max(hist.activeSince[1], refs.lastGpsUpdate)
          > GpsLossMs + GpsLossIntervalMs)
      => store.gpsStatus = "lost"

\* C18: no step taken while the trip is paused changes GPS health to Lost
C18_NoLossWhilePaused ==
    [][(store.isTracking /\ store.isPaused /\ store.gpsStatus # "lost")
         => store'.gpsStatus # "lost"]_vars

C18_Witness ==
    /\ hist.act = "gpsCheck"
    /\ store.isTracking /\ store.isPaused /\ refs.isPaused
    /\ now - refs.lastGpsUpdate > GpsLossMs

\* GPS health Lost in the model: the watchdog interval is set again by every
\* render (its effect depends on checkGpsLoss, recreated with each store
\* state), and an Active trip renders on every 1 s tick
GpsNeverLost == store.gpsStatus # "lost"

\* C19: a 1 s tick of an Active trip with no sample for more than 3 s and a
\* current speed above 0 sets the current speed to 0 and leaves totalDistance
\* and maxSpeed as they are
C19_SpeedDecay ==
    [][(/\ hist'.act \in {"tick", "speedDecay"}
        /\ store.isTracking /\ ~store.isPaused
        /\ now - refs.lastGpsUpdate > DecayMs
        /\ store.currentSpeed > 0)
         => /\ store'.currentSpeed = 0
            /\ store'.totalDistance = store.totalDistance
            /\ store'.maxSpeed = store.maxSpeed]_vars

C19_Witness ==
    /\ hist.act = "speedDecay"
    /\ store.isTracking /\ ~store.isPaused
    /\ store.currentSpeed = 0 /\ store.maxSpeed > 0
    /\ now - refs.lastGpsUpdate > DecayMs

\* C20: when checkForActiveTrip finds a persisted 'active' trip while nothing
\* is tracked, the store goes directly to Active, never Paused, on that trip
\* with its persisted totalDistance and maxSpeed and GPS health Searching, and
\* the location source is asked for again and, when it grants, is open
C20_Recovery ==
    [][/\ (hist'.act = "restored" /\ ~store.isTracking)
            => /\ store'.currentTripId \in ActiveIds
               /\ store'.isTracking /\ ~store'.isPaused
               /\ store'.totalDistance = trips[store'.currentTripId].totalDistance
               /\ store'.maxSpeed = trips[store'.currentTripId].maxSpeed
               /\ store'.gpsStatus = "searching"
               /\ restorePc' = "full"
       /\ RestoreFull(TRUE) => subscription'.open]_vars

C20_Witness ==
    /\ hist.act = "restoreFull" /\ subscription.open
    /\ store.isTracking /\ ~store.isPaused /\ store.currentTripId = 1
    /\ store.maxSpeed > 0 /\ store.totalDistance > 0
    /\ store.gpsStatus = "searching"
    /\ nCalls = 1 /\ nSamples = 0

\* C21: a restore while nothing is tracked sets the elapsed time to the whole
\* seconds since the persisted start and the average speed to the persisted
\* distance over that time (computed from the milliseconds or from the whole
\* seconds), whatever avgSpeed the row holds
C21_RestoreRecomputes ==
    [][(hist'.act = "restored" /\ ~store.isTracking)
         => LET trip == trips[store'.currentTripId]
                elapsedMs == now - trip.startTime
                elapsedTime == elapsedMs \div MsPerSecond
            IN  /\ store'.elapsedTime = elapsedTime
                /\ store'.avgSpeed \in
                     {IF elapsedMs > 0
                      THEN (trip.totalDistance * 360000) \div elapsedMs ELSE 0,
                      IF elapsedTime > 0
                      THEN (trip.totalDistance * 360) \div elapsedTime ELSE 0}]_vars

\* C22: when the writes of the last accepted sample succeed, with no write
\* of the run rejected, restoreTracking applied to the persisted row of the
\* trip that was tracked when the sample was accepted gives the totalDistance
\* and maxSpeed the store held after that sample
C22_RoundTrip ==
    [][(/\ hist'.act = "statsSaved" /\ faults = 0
        /\ hist.sampled # Null /\ hist'.sampled = Null
        /\ hist.sampled[1].tripId # NoTrip)
         => LET last == hist.sampled[1]
                trip == trips'[last.tripId]
                back == storeRestoreTracking(initialState, last.tripId,
                                             trip.startTime, trip.totalDistance,
                                             trip.maxSpeed, trip.avgSpeed, now)
            IN  /\ back.totalDistance = last.totalDistance
                /\ back.maxSpeed = last.maxSpeed]_vars

\* C23: a distance update and a 1 s tick of the tracked trip set the average
\* speed to the total distance over the wall-clock time since the trip start
\* (pauses are not subtracted), and to 0 when no time has elapsed
C23_AvgSpeedFromWallClock ==
    [][/\ (hist'.act = "sampleAccepted"
           /\ store'.totalDistance # store.totalDistance)
            => LET elapsedMs == IF store.tripStartTime # 0
                                THEN now - store.tripStartTime ELSE 0
               IN  store'.avgSpeed =
                     IF elapsedMs > 0
                     THEN (store'.totalDistance * 360000) \div elapsedMs ELSE 0
       /\ (hist'.act \in {"tick", "speedDecay"}
           /\ store.isTracking /\ ~store.isPaused /\ store.tripStartTime # 0)
            => LET elapsedTime == (now - store.tripStartTime) \div MsPerSecond
               IN  store'.avgSpeed =
                     IF elapsedTime > 0
                     THEN (store.totalDistance * 360) \div elapsedTime ELSE 0]_vars

C23_Witness ==
    /\ hist.act = "tick" /\ store.isTracking
    /\ store.totalDistance > 0 /\ store.avgSpeed > 0
    /\ store.avgSpeed = (store.totalDistance * 360) \div store.elapsedTime

\* C24: a rejected write of a sample handler changes nothing but the queue:
\* the store keeps the sample's update and stays as it was (Active when it was
\* Active), the refs and the subscription that later samples depend on are
\* untouched, and the rows are as the earlier writes left them
C24_WriteFailureSwallowed ==
    [][hist'.act = "saveFailed"
         => /\ store' = store /\ refs' = refs /\ subscription' = subscription
            /\ timers' = timers /\ trips' = trips /\ pointCount' = pointCount
            /\ startPc' = startPc /\ stopPc' = stopPc]_vars

C24_Witness ==
    /\ hist.act = "saveFailed"
    /\ store.isTracking /\ ~store.isPaused /\ subscription.open
    /\ store.currentTripId # NoTrip /\ refs.tripId = store.currentTripId
    /\ store.maxSpeed > 0 /\ trips[store.currentTripId].maxSpeed = 0

C26_PauseResume ==
    [][(hist'.act \in {"pause", "resume"} /\ store.isTracking
        /\ store.isPaused = (hist'.act = "resume"))
         => /\ store'.isTracking
            /\ store'.isPaused = (hist'.act = "pause")
            /\ store'.totalDistance = store.totalDistance
            /\ store'.maxSpeed = store.maxSpeed
            /\ store'.currentTripId = store.currentTripId]_vars

\* resume() has made a trip Active that only the debounce can have paused
C26_Witness ==
    /\ hist.act = "resume" /\ hist.autoPaused
    /\ store.isTracking /\ ~store.isPaused
    /\ nCalls = 2 /\ nSamples = 1

\* C27: once a stop() has returned, and until a trip is started or restored,
\* no callback of the 1 s interval, the 5 s interval or the debounce changes
\* the store
C27_StopCancelsTimers ==
    [][(/\ hist.stopped
        /\ hist'.act \in {"tick", "speedDecay", "gpsCheck", "stationaryTimeout"})
         => store' = store]_vars

\* C28: the speed of a processed sample is the device speed times 3.6 when
\* the device speed is present and not negative; otherwise the distance from
\* the previous point over the time since it, when there is a previous point
\* and that time is positive; otherwise 0.  The noise floor may turn the
\* selected speed into 0, and the result is never negative
C28_SpeedSelection ==
    [][hist'.act = "sampleAccepted"
         => LET point == Head(dbQueue).point
                prev == refs.lastLocation
                selected ==
                  IF point.speed # Null /\ point.speed[1] >= 0
                  THEN point.speed[1] * MS_TO_KMH
                  ELSE IF prev # Null /\ point.timestamp > prev[1].timestamp
                       THEN (haversineDistance(prev[1], point) * 360000)
                              \div (point.timestamp - prev[1].timestamp)
                       ELSE 0
            IN  /\ store'.currentSpeed \in {0, selected}
                /\ selected >= GPS_NOISE_THRESHOLD_KMH
                     => store'.currentSpeed = selected
                /\ store'.currentSpeed >= 0]_vars

\* A point without a usable device speed that lies one grid step from the
\* previous point and is not later than it has been processed with speed 0
C28_Witness ==
    /\ hist.act = "sampleAccepted"
    /\ refs.lastLocation # Null /\ store.lastLocation # Null
    /\ store.lastLocation[1].speed = Some(-1)
    /\ store.lastLocation[1].timestamp <= refs.lastLocation[1].timestamp
    /\ store.lastLocation[1].latitude # refs.lastLocation[1].latitude
    /\ store.currentSpeed = 0

\* C29: the speed of every processed sample is 0 or at least 1.0 km/h, and a
\* sample whose speed is 0 adds nothing to the trip distance, wherever its
\* coordinates lie
C29_NoiseFloor ==
    [][hist'.act = "sampleAccepted"
         => /\ store'.currentSpeed = 0
               \/ store'.currentSpeed >= GPS_NOISE_THRESHOLD_KMH
            /\ store'.currentSpeed = 0
                 => /\ store'.totalDistance = store.totalDistance
                    /\ dbQueue'[Len(dbQueue')].newDistance = refs.totalDistance]_vars

\* A sample with device speed 0.2 m/s one grid step from the previous point
\* has been processed: speed 0, distance unchanged
C29_Witness ==
    /\ hist.act = "sampleAccepted"
    /\ refs.lastLocation # Null /\ store.lastLocation # Null
    /\ store.lastLocation[1].speed = Some(2)
    /\ store.lastLocation[1].latitude # refs.lastLocation[1].latitude
    /\ store.currentSpeed = 0
    /\ store.totalDistance = refs.totalDistance

\* C30: start and restore leave GPS health Searching, and while a trip is
\* tracked Searching is left only by a processed sample, to Acquired, or by
\* the loss watchdog, to Lost
C30_SearchingUntilSampleOrLoss ==
    [][/\ (hist'.act \in {"startCreated", "restored"} /\ store'.isTracking)
          => store'.gpsStatus = "searching"
       /\ (store.isTracking /\ store'.isTracking
           /\ store.gpsStatus = "searching" /\ store'.gpsStatus # "searching")
          => \/ hist'.act = "sampleAccepted" /\ store'.gpsStatus = "acquired"
             \/ hist'.act = "gpsCheck" /\ store'.gpsStatus = "lost"]_vars

\* C31: every result of getAllTrips holds each completed trip once, in
\* descending order of start time, and no trip whose status is 'active'
C31_OnlyCompletedTrips ==
    \A rows \in getAllTrips :
       /\ \A id \in 1..Len(trips) :
             trips[id].status = "completed"
               => Cardinality({i \in 1..Len(rows) : rows[i] = id}) = 1
       /\ \A i, j \in 1..Len(rows) :
             i < j => trips[rows[i]].startTime >= trips[rows[j]].startTime
       /\ \A i \in 1..Len(rows) : trips[rows[i]].status # "active"

\* C32: a trip-stats write never lowers the persisted totalDistance or the
\* persisted maxSpeed of the trip it is made for
C32_PersistedAggregateMonotonic ==
    [][hist'.act = "statsSaved"
         => LET id == Head(dbQueue).tripId
            IN  /\ trips'[id].totalDistance >= trips[id].totalDistance
                /\ trips'[id].maxSpeed >= trips[id].maxSpeed]_vars

\* C33: a sample handler that resumes from its first await applies nothing
\* once pause() or stop() has taken effect: while the trip stays paused its
\* totalDistance and maxSpeed do not change, and after a stop() that ran to
\* its end the store keeps speed 0, distance 0 and no last location until a
\* trip is started or restored
C33_SuspendedHandlerAppliesNothing ==
    [][/\ (WithinTrip /\ store.isPaused /\ store'.isPaused)
          => /\ store'.totalDistance = store.totalDistance
             /\ store'.maxSpeed = store.maxSpeed
       /\ (hist.stopped /\ ~store.isTracking
           /\ hist'.act \notin {"startCreated", "restored"})
          => /\ store'.currentSpeed = 0
             /\ store'.totalDistance = 0
             /\ store'.lastLocation = Null]_vars

\* C34: the paused flag is set only while a trip is tracked and a current
\* trip id is set
C34_PausedImpliesTracking ==
    store.isPaused => store.isTracking /\ store.currentTripId # NoTrip

\* C35: GPS health becomes Acquired only by the step that processes a
\* location sample, never by a tick of a timer
C35_AcquiredOnlyBySample ==
    [][(store.gpsStatus # "acquired" /\ store'.gpsStatus = "acquired")
         => hist'.act = "sampleAccepted"]_vars

\* C36: a tracked trip has GPS health Lost only after more than 10 s of
\* silence since it became Active or since its last sample, and the moment
\* from which the watchdog measures the silence (lastGpsUpdateRef) is never
\* earlier than the start of the tracked trip
C36_SilenceMeasuredFromStart ==
    /\ (store.isTracking /\ store.gpsStatus = "lost" /\ hist.activeSince # Null)
         => now - Max(hist.activeSince[1], refs.lastGpsUpdate) > GpsLossMs
    /\ (store.isTracking /\ ~dirty) => refs.lastGpsUpdate >= store.tripStartTime

\* C37: a sample delivered after a pause of the trip has ended, accepted
\* when the point accepted last was delivered before that pause, adds
\* nothing to totalDistance: the way between the two points is not counted
C37_PausedMovementNotCounted ==
    [][(/\ hist'.act = "sampleAccepted" /\ WithinTrip /\ ~store.isPaused
        /\ hist.pausedAt # Null /\ refs.lastLocation # Null
        /\ refs.lastLocation[1].seq <= hist.pausedAt[1]
        /\ Head(dbQueue).point.seq > hist.pausedAt[1])
         => store'.totalDistance = store.totalDistance]_vars

\* C38: while the trip is Active and not paused the 1 s interval stays armed
\* and nothing but its own firing moves its next deadline later: an accepted
\* sample does not postpone the tick
C38_TickNotPostponed ==
    [][(/\ rendered.isTracking /\ ~rendered.isPaused
        /\ store'.isTracking /\ ~store'.isPaused
        /\ timers.tick # Null
        /\ hist'.act \notin {"tick", "speedDecay"})
         => /\ timers'.tick # Null
            /\ timers'.tick[1] <= timers.tick[1]]_vars

\* C39: when a stop() has returned, nothing is tracked and no trip is
\* current, also when completeTrip was rejected
C39_StopLeavesIdle ==
    [][(hist'.act \in {"stopDone", "stopThrew"} /\ stopPc' = "idle")
         => ~store'.isTracking /\ store'.currentTripId = NoTrip]_vars

\* C40: with unit mph and threshold N, an accepted sample is compared against
\* N mph in km/h (N x 1.60934): a speed below it arms the debounce when none
\* is armed and leaves an armed one, a speed at or above it clears it
C40_ThresholdInShownUnit ==
    [][(/\ hist'.act = "sampleAccepted" /\ settings.unit = "mph"
        /\ settings.autoPauseEnabled /\ ~refs.isPaused)
         => LET shown == (settings.autoPauseThreshold * 160934) \div 1000
            IN  timers'.stationary =
                  IF store'.currentSpeed >= shown THEN Null
                  ELSE IF timers.stationary = Null
                       THEN Some(now + StationaryDurationS * MsPerSecond)
                       ELSE timers.stationary]_vars
====
